---------------------------- MODULE Spec2Model ----------------------------
(***************************************************************************)
(* A model of the AI risk-assessment application: the submission form      *)
(* (RiskAssessmentForm), the hosted record store (three Supabase tables),  *)
(* the dashboard (BlackThemeDashboard / Dashboard), the reports view       *)
(* (EnhancedReportsSection) with its exporter, and the client-side         *)
(* aggregation the views run over the records they hold.                   *)
(*                                                                         *)
(* Text is a sequence of characters.  A run of characters that are neither *)
(* a quote, a backslash, a comma nor a line break is one atom ("Critical", *)
(* "risk_type"); the four special characters are the atoms Quote,          *)
(* Backslash, Comma and Newline.  Time is counted in hours.                *)
(***************************************************************************)
EXTENDS Integers, Sequences, FiniteSets, TLC

VARIABLES
    risk_assessments,      \* table public.risk_assessments, in insertion order
    mitigation_strategies, \* table public.mitigation_strategies
    risk_factors,          \* table public.risk_factors
    activeTab,             \* Index: the tab whose component is mounted
    formData,              \* RiskAssessmentForm: the six form fields
    isSubmitting,          \* RiskAssessmentForm: the in-progress flag
    inserts,               \* insert calls awaiting the store's answer
    dash,                  \* the dashboard instance's React state
    evalAt,                \* the clock readings of the dashboard's last load
    rep,                   \* the reports view instance's React state
    toast,                 \* the notification raised by the last step
    download,              \* the file handed to the browser by the last step
    aggIn,                 \* the record arrays a view renders from
    aggOut                 \* what the render derived from them

storeVars == <<risk_assessments, mitigation_strategies, risk_factors>>
formVars  == <<formData, isSubmitting, inserts>>
dashVars  == <<dash, evalAt>>
outVars   == <<toast, download>>
aggVars   == <<aggIn, aggOut>>
vars == <<risk_assessments, mitigation_strategies, risk_factors, activeTab,
          formData, isSubmitting, inserts, dash, evalAt, rep, toast,
          download, aggIn, aggOut>>

None == "none"

\* ------------------------------------------------------------------ bounds

\* Longest assessment list a view is rendered from.
MaxList == 3

\* Rows risk_assessments holds at most; the store rejects inserts past it.
MaxStore == 2

\* Longest risk_assessments table a reports view loads.
MaxExport == 2

\* How many of the tools a chart's input can name twice.
MaxRepeated == 3

\* Insert calls of form instances left behind that await the store's answer:
\* with this many in flight the form sends no further one.
MaxPending == 1

\* --------------------------------------------------------------- label sets

\* Two of the ten entries of AI_TOOLS and of RISK_TYPES.
AI_TOOLS == {"ChatGPT/OpenAI", "Other"}

RISK_TYPES == {"Misinformation", "Privacy Concerns"}

\* The four severities the form offers and the table's CHECK admits.
Severities == {"Low", "Medium", "High", "Critical"}

\* ------------------------------------------------------------ record shapes

\* A row of risk_assessments as a select returns it.  The columns id and
\* updated_at are left out: no code path of the application reads them.
Assessment(tool, risk, sev, desc, mail, req, at) ==
    [ai_tool |-> tool, risk_type |-> risk, severity |-> sev, description |-> desc,
     email |-> mail, report_requested |-> req, created_at |-> at]

\* A row of mitigation_strategies, of risk_factors (frequency in hundredths).
Strategy(risk, sev, title, score) ==
    [risk_type |-> risk, severity |-> sev, strategy_title |-> title,
     effectiveness_score |-> score]

Factor(risk, name, impact, freq) ==
    [risk_type |-> risk, factor_name |-> name, impact_level |-> impact,
     frequency_percentage |-> freq]

\* Rows the migrations seed, in the order the views select them.
SeedStrategies ==
    << Strategy("Misinformation", "Critical", <<"Source Verification">>, 9),
       Strategy("Misinformation", "High", <<"Fact-Checking Integration">>, 8) >>

SeedFactors ==
    << Factor("Misinformation", <<"Content Hallucination">>, "Critical", 4370),
       Factor("Misinformation", <<"Context Misinterpretation">>, "High", 3720) >>

\* The instant the reference clock shows, in hours.
RefTime == 24 * 365

\* The first of the sample rows the second migration puts into
\* risk_assessments, stamped by the store when the migration ran.
SampleAssessments ==
    << Assessment("ChatGPT/OpenAI", "Misinformation", "High",
                  <<"Generated false information about medical treatments">>,
                  <<"researcher@university.edu">>, TRUE, RefTime - 24) >>

\* ------------------------------------------------------------- sequences

RECURSIVE SeqsUpTo(_, _)
SeqsUpTo(S, n) ==
    IF n = 0 THEN {<< >>}
    ELSE LET shorter == SeqsUpTo(S, n - 1)
         IN  shorter \cup {Append(s, x) : s \in {t \in shorter : Len(t) = n - 1}, x \in S}

RECURSIVE SumSeq(_)
SumSeq(s) == IF s = << >> THEN 0 ELSE s[1] + SumSeq(Tail(s))

\* ------------------------------------------------------------- aggregator

\* The index of key k in an object's entries, 0 when the object has no such key.
KeyIndex(acc, k) ==
    LET hits == {i \in 1..Len(acc) : acc[i][1] = k}
    IN  IF hits = {} THEN 0 ELSE CHOOSE i \in hits : TRUE

\* One reduce step, acc[k] = (acc[k] || 0) + 1: an object is its entries
\* <<key, count>> in insertion order, which is the order Object.entries lists.
BumpDropsRepeats(acc, k) ==
    IF KeyIndex(acc, k) = 0 THEN Append(acc, <<k, 1>>) ELSE acc

Bump(acc, k) ==
    LET i == KeyIndex(acc, k)
    IN  IF i = 0 THEN Append(acc, <<k, 0 + 1>>)
        ELSE [acc EXCEPT ![i] = <<k, acc[i][2] + 1>>]

\* The property key acc[curr.<field>] goes to: the label itself, and the
\* string "undefined" when the record has no such property.
PropertyKeyEmptyWhenMissing(item, field) ==
    IF field \in DOMAIN item THEN item[field] ELSE ""

PropertyKey(item, field) ==
    IF field \in DOMAIN item THEN item[field] ELSE "undefined"

\* assessments.reduce((acc, curr) => { acc[curr.<field>] = ...; return acc }, {})
RECURSIVE CountBy(_, _, _)
CountBy(list, field, acc) ==
    IF list = << >> THEN acc
    ELSE CountBy(Tail(list), field, Bump(acc, PropertyKey(Head(list), field)))

severityData(assessments) == CountBy(assessments, "severity", << >>)

toolData(assessments) == CountBy(assessments, "ai_tool", << >>)

riskTypeDataCountsTools(assessments) == CountBy(assessments, "ai_tool", << >>)

riskTypeData(assessments) == CountBy(assessments, "risk_type", << >>)

\* Array.prototype.sort(([,a], [,b]) => b - a): stable, descending by count.
RECURSIVE InsertDescAheadOfTies(_, _)
InsertDescAheadOfTies(sorted, e) ==
    IF sorted = << >> THEN <<e>>
    ELSE IF Head(sorted)[2] > e[2]
         THEN <<Head(sorted)>> \o InsertDescAheadOfTies(Tail(sorted), e)
         ELSE <<e>> \o sorted

RECURSIVE InsertDesc(_, _)
InsertDesc(sorted, e) ==
    IF sorted = << >> THEN <<e>>
    ELSE IF Head(sorted)[2] >= e[2] THEN <<Head(sorted)>> \o InsertDesc(Tail(sorted), e)
    ELSE <<e>> \o sorted

RECURSIVE SortDesc(_)
SortDesc(entries) ==
    IF entries = << >> THEN << >>
    ELSE InsertDesc(SortDesc(SubSeq(entries, 1, Len(entries) - 1)), entries[Len(entries)])

\* Array.prototype.slice(0, n)
SliceKeepsAll(entries, n) == entries

Slice(entries, n) == SubSeq(entries, 1, IF Len(entries) < n THEN Len(entries) ELSE n)

\* The ten labels of AI_TOOLS in the form's order, and a label only a row
\* inserted by another client of the public insert policy carries.
ChartTools ==
    << "ChatGPT/OpenAI", "Tesla Autopilot", "Facial Recognition Systems",
       "Google AI/Bard", "Amazon Alexa", "Netflix Recommendation",
       "Social Media Algorithms", "Banking AI Systems", "Healthcare AI Diagnostics",
       "Other", "In-house Assistant" >>

\* key.length of these labels.
LabelLengths == << 14, 15, 26, 14, 12, 22, 23, 18, 25, 5, 18 >>

LabelLength(key) ==
    IF key = "undefined" THEN 9
    ELSE IF key = "" THEN 0
    ELSE LabelLengths[CHOOSE i \in 1..Len(ChartTools) : ChartTools[i] = key]

\* key.length > limit ? key.substring(0, limit) + '...' : key.  A shortened
\* name is written <<key, limit, "...">>: the first limit characters of key
\* and the dots.
ChartName(key, limit) ==
    IF LabelLength(key) > limit THEN <<key, limit, "...">> ELSE <<key>>

\* The entries the tool chart of BlackThemeDashboard shows at most, and of
\* the hosted Dashboard.
ToolChartSize == 10

HostedToolChartSize == 8

\* toolChartData of BlackThemeDashboard.
toolChartData(assessments) ==
    LET top == Slice(SortDesc(toolData(assessments)), ToolChartSize)
    IN  [i \in 1..Len(top) |->
            [name |-> ChartName(top[i][1], 20), value |-> top[i][2],
             risk_level |-> IF Len(SelectSeq(assessments,
                                             LAMBDA a : /\ "ai_tool" \in DOMAIN a
                                                        /\ a.ai_tool = top[i][1])) > 5
                            THEN "High" ELSE "Medium"]]

\* toolChartData of the hosted Dashboard.
hostedToolChartData(assessments) ==
    LET top == Slice(SortDesc(toolData(assessments)), HostedToolChartSize)
    IN  [i \in 1..Len(top) |->
            [name |-> ChartName(top[i][1], 15), value |-> top[i][2]]]

\* A number is a fraction num/den; 0/0 is NaN.
NaN == [num |-> 0, den |-> 0]

\* Number.prototype.toFixed(1) of num/den >= 0, in tenths: the nearest tenth,
\* the larger one on a tie.
ToFixed1Truncates(num, den) ==
    IF den = 0 THEN "NaN" ELSE (10 * num) \div den

ToFixed1(num, den) ==
    IF den = 0 THEN "NaN" ELSE (2 * 10 * num + den) \div (2 * den)

\* strategies.reduce((sum, s) => sum + s.effectiveness_score, 0) / strategies.length
AverageEffectiveness(strategies) ==
    [num |-> SumSeq([i \in 1..Len(strategies) |-> strategies[i].effectiveness_score]),
     den |-> Len(strategies)]

\* The body of getAnalyticsInsights / getInsights past its empty-list guard.
\* criticalPercentage and avgEffectiveness are in tenths.
insightsOf(assessments, strategies, riskFactors) ==
    LET severityCount == severityData(assessments)
        tools == SortDesc(toolData(assessments))
        risks == SortDesc(riskTypeData(assessments))
        ci == KeyIndex(severityCount, "Critical")
        critical == IF ci = 0 THEN 0 ELSE severityCount[ci][2]
        avg == AverageEffectiveness(strategies)
    IN  [totalReports |-> Len(assessments),
         criticalPercentage |-> ToFixed1(critical * 100, Len(assessments)),
         mostReportedTool |-> IF tools = << >> THEN "N/A" ELSE tools[1][1],
         mostCommonRisk |-> IF risks = << >> THEN "N/A" ELSE risks[1][1],
         avgEffectiveness |-> ToFixed1(avg.num, avg.den),
         trendDirection |-> IF critical * 100 > 20 * Len(assessments)
                            THEN "increasing" ELSE "stable"]

\* getAnalyticsInsights / getInsights: null for an empty list, else the
\* insight record.  The result is a sequence: empty for null.
getAnalyticsInsightsUnguarded(assessments, strategies, riskFactors) ==
    << insightsOf(assessments, strategies, riskFactors) >>

getAnalyticsInsights(assessments, strategies, riskFactors) ==
    IF Len(assessments) = 0 THEN << >>
    ELSE << insightsOf(assessments, strategies, riskFactors) >>

\* ----------------------------------------------------- component state

\* A component that is not rendered holds no state.
Unmounted == [mounted |-> FALSE]

\* useState initial values of RiskAssessmentForm.
InitialFormData ==
    [aiTool |-> "", riskType |-> "", severity |-> "", description |-> << >>,
     email |-> << >>, reportRequested |-> FALSE]

FormInit ==
    /\ formData = InitialFormData
    /\ isSubmitting = FALSE
    /\ inserts = << >>

\* useState initial values of BlackThemeDashboard.
InitialStats ==
    [total |-> 0, critical |-> 0, high |-> 0, thisWeek |-> 0,
     avgEffectiveness |-> [num |-> 0, den |-> 1], sectorsAnalyzed |-> 0]

InitialDash ==
    [mounted |-> TRUE, assessments |-> << >>, strategies |-> << >>, riskFactors |-> << >>,
     stats |-> InitialStats, selectedRisk |-> [riskType |-> None, severity |-> None],
     showMitigation |-> FALSE, loading |-> TRUE, mitigation |-> Unmounted]

\* useState initial values of MitigationDashboard, the child a dashboard
\* renders when showMitigation is set; its state is held in dash.mitigation.
InitialMitigation ==
    [mounted |-> TRUE, strategies |-> << >>, riskFactors |-> << >>, loading |-> TRUE]

\* useState initial values of EnhancedReportsSection.
InitialReports ==
    [mounted |-> TRUE, assessments |-> << >>, strategies |-> << >>, riskFactors |-> << >>,
     email |-> << >>, reportType |-> "comprehensive", isExporting |-> FALSE,
     loading |-> TRUE]

\* --------------------------------------------------- rendering a view

\* The record arrays a render can find in a view's state.
AggRecords ==
    {Assessment(t, r, s, << >>, << >>, FALSE, RefTime) :
        t \in AI_TOOLS, r \in RISK_TYPES, s \in Severities}

AggInit ==
    /\ aggIn \in [assessments : SeqsUpTo(AggRecords, MaxList),
                  strategies : {<< >>, SeedStrategies},
                  riskFactors : {SeedFactors}]
    /\ aggOut = [view |-> None]
    /\ risk_assessments = << >>
    /\ mitigation_strategies = SeedStrategies
    /\ risk_factors = SeedFactors
    /\ activeTab = "form"
    /\ FormInit
    /\ dash = Unmounted
    /\ evalAt = << >>
    /\ rep = Unmounted
    /\ toast = None
    /\ download = << >>

\* The chart data a dashboard render derives from its assessments.
RenderDashboard ==
    /\ aggOut' = [view |-> "dashboard",
                  severityData |-> severityData(aggIn.assessments),
                  toolData |-> toolData(aggIn.assessments),
                  riskTypeData |-> riskTypeData(aggIn.assessments),
                  toolChartData |-> toolChartData(aggIn.assessments)]
    /\ UNCHANGED <<storeVars, activeTab, formVars, dashVars, rep, outVars, aggIn>>

\* The chart data a render of the hosted Dashboard derives.
RenderHostedDashboard ==
    /\ aggOut' = [view |-> "hosted dashboard",
                  severityData |-> severityData(aggIn.assessments),
                  toolData |-> toolData(aggIn.assessments),
                  riskTypeData |-> riskTypeData(aggIn.assessments),
                  toolChartData |-> hostedToolChartData(aggIn.assessments)]
    /\ UNCHANGED <<storeVars, activeTab, formVars, dashVars, rep, outVars, aggIn>>

\* const insights = getAnalyticsInsights() in a reports render.
RenderInsights ==
    /\ aggOut' = [view |-> "reports",
                  insights |-> getAnalyticsInsights(aggIn.assessments, aggIn.strategies,
                                                    aggIn.riskFactors)]
    /\ UNCHANGED <<storeVars, activeTab, formVars, dashVars, rep, outVars, aggIn>>

NextAgg == RenderDashboard \/ RenderInsights

SpecAgg == AggInit /\ [][NextAgg]_vars

\* Record arrays of many tools: each of the tools of a chosen set once, in
\* the form's order or against it, then a record each of some of the first
\* MaxRepeated tools.  Risk types alternate with the tool.
ChartRecord(t) ==
    Assessment(ChartTools[t], IF t % 2 = 1 THEN "Misinformation" ELSE "Privacy Concerns",
               "High", << >>, << >>, FALSE, RefTime)

RECURSIVE Ascending(_, _)
Ascending(set, from) ==
    IF from > Len(ChartTools) THEN << >>
    ELSE (IF from \in set THEN <<ChartRecord(from)>> ELSE << >>)
         \o Ascending(set, from + 1)

Reversed(list) == [i \in 1..Len(list) |-> list[Len(list) + 1 - i]]

ChartInputs ==
    { (IF backwards THEN Reversed(Ascending(once, 1)) ELSE Ascending(once, 1))
          \o Ascending(twice, 1) :
        once \in SUBSET (1..Len(ChartTools)),
        twice \in SUBSET (1..MaxRepeated),
        backwards \in BOOLEAN }

ChartInit ==
    /\ aggIn \in [assessments : ChartInputs,
                  strategies : {SeedStrategies},
                  riskFactors : {SeedFactors}]
    /\ aggOut = [view |-> None]
    /\ risk_assessments = << >>
    /\ mitigation_strategies = SeedStrategies
    /\ risk_factors = SeedFactors
    /\ activeTab = "form"
    /\ FormInit
    /\ dash = Unmounted
    /\ evalAt = << >>
    /\ rep = Unmounted
    /\ toast = None
    /\ download = << >>

NextChart == RenderDashboard \/ RenderHostedDashboard \/ RenderInsights

SpecChart == ChartInit /\ [][NextChart]_vars

\* Records a render can meet that lack properties the groupings read: the
\* legacy Dashboard takes whatever JSON.parse finds under 'riskAssessments',
\* and a select need not name every column.  A record lacks any of the three
\* grouped properties; one record carries the empty label as its severity.
GroupedFields == {"ai_tool", "risk_type", "severity"}

Lacking(record, missing) == [f \in (DOMAIN record) \ missing |-> record[f]]

LooseRecords ==
    { Lacking(record, missing) :
        record \in { Assessment("Other", "Misinformation", "Critical",
                                << >>, << >>, FALSE, RefTime),
                     Assessment("ChatGPT/OpenAI", "Privacy Concerns", "",
                                << >>, << >>, FALSE, RefTime) },
        missing \in SUBSET GroupedFields }

\* Longest list of such records a view is rendered from.
MaxLoose == 2

LooseInit ==
    /\ aggIn \in [assessments : SeqsUpTo(LooseRecords, MaxLoose),
                  strategies : {SeedStrategies},
                  riskFactors : {SeedFactors}]
    /\ aggOut = [view |-> None]
    /\ risk_assessments = << >>
    /\ mitigation_strategies = SeedStrategies
    /\ risk_factors = SeedFactors
    /\ activeTab = "form"
    /\ FormInit
    /\ dash = Unmounted
    /\ evalAt = << >>
    /\ rep = Unmounted
    /\ toast = None
    /\ download = << >>

SpecLoose == LooseInit /\ [][NextChart]_vars

\* ------------------------------------------------------------ the form

\* What the user picks and types in this model: one tool, one risk type, two
\* severities, one description, one address.
UserTools == {"ChatGPT/OpenAI"}

UserRisks == {"Misinformation"}

UserSeverities == {"Critical", "Low"}

UserTexts == {<<"It made up a source">>}

UserEmails == {<<"user@email.com">>}

\* The instant the store's clock shows when it stamps created_at.
ServerStamps == {RefTime}

\* onValueChange / onChange of the six inputs: setFormData({...formData, f: v}).
setAiTool ==
    \E v \in UserTools :
        /\ activeTab = "form"
        /\ formData' = [formData EXCEPT !.aiTool = v]
        /\ toast' = None /\ download' = << >>
        /\ UNCHANGED <<storeVars, activeTab, isSubmitting, inserts, dashVars, rep, aggVars>>

setRiskType ==
    \E v \in UserRisks :
        /\ activeTab = "form"
        /\ formData' = [formData EXCEPT !.riskType = v]
        /\ toast' = None /\ download' = << >>
        /\ UNCHANGED <<storeVars, activeTab, isSubmitting, inserts, dashVars, rep, aggVars>>

setSeverity ==
    \E v \in UserSeverities :
        /\ activeTab = "form"
        /\ formData' = [formData EXCEPT !.severity = v]
        /\ toast' = None /\ download' = << >>
        /\ UNCHANGED <<storeVars, activeTab, isSubmitting, inserts, dashVars, rep, aggVars>>

setDescription ==
    \E v \in UserTexts \cup {<< >>} :
        /\ activeTab = "form"
        /\ formData' = [formData EXCEPT !.description = v]
        /\ toast' = None /\ download' = << >>
        /\ UNCHANGED <<storeVars, activeTab, isSubmitting, inserts, dashVars, rep, aggVars>>

setEmail ==
    \E v \in UserEmails \cup {<< >>} :
        /\ activeTab = "form"
        /\ formData' = [formData EXCEPT !.email = v]
        /\ toast' = None /\ download' = << >>
        /\ UNCHANGED <<storeVars, activeTab, isSubmitting, inserts, dashVars, rep, aggVars>>

setReportRequested ==
    /\ activeTab = "form"
    /\ formData' = [formData EXCEPT !.reportRequested = ~formData.reportRequested]
    /\ toast' = None /\ download' = << >>
    /\ UNCHANGED <<storeVars, activeTab, isSubmitting, inserts, dashVars, rep, aggVars>>

\* The submit button's disabled attribute; a form whose submit button is
\* disabled is not submitted by the browser.
SubmitDisabledWhileSubmittingOnly == isSubmitting

SubmitDisabledOnEmptyFieldsOnly ==
    formData.aiTool = "" \/ formData.riskType = "" \/ formData.severity = ""

SubmitDisabled ==
    formData.aiTool = "" \/ formData.riskType = "" \/ formData.severity = ""
        \/ isSubmitting

\* The row handleSubmit passes to insert.
InsertRow(fd) ==
    [ai_tool |-> fd.aiTool, risk_type |-> fd.riskType, severity |-> fd.severity,
     description |-> fd.description, email |-> fd.email,
     report_requested |-> fd.reportRequested]

\* handleSubmit up to its await: the flag is raised and the insert is sent.
handleSubmit ==
    /\ activeTab = "form"
    /\ ~SubmitDisabled
    /\ Cardinality({i \in 1..Len(inserts) : ~inserts[i].mounted}) < MaxPending
    /\ isSubmitting' = TRUE
    /\ inserts' = Append(inserts, [row |-> InsertRow(formData), answer |-> "pending",
                                   mounted |-> TRUE])
    /\ toast' = None /\ download' = << >>
    /\ UNCHANGED <<storeVars, activeTab, formData, dashVars, rep, aggVars>>

\* The table's constraints on an inserted row: NOT NULL columns and the
\* severity CHECK.
StoreAccepts(row) == row.severity \in Severities

\* The row the store appends for an insert call, stamped with its clock.
StoredRow(row, at) ==
    Assessment(row.ai_tool, row.risk_type, row.severity, row.description, row.email,
               row.report_requested, at)

StoreInsertReplacesRows ==
    \E i \in 1..Len(inserts) :
        /\ inserts[i].answer = "pending"
        /\ \/ /\ StoreAccepts(inserts[i].row)
              /\ Len(risk_assessments) < MaxStore
              /\ \E at \in ServerStamps :
                    risk_assessments' = <<StoredRow(inserts[i].row, at)>>
              /\ inserts' = [inserts EXCEPT ![i].answer = "ok"]
           \/ /\ inserts' = [inserts EXCEPT ![i].answer = "error"]
              /\ UNCHANGED risk_assessments
        /\ toast' = None /\ download' = << >>
        /\ UNCHANGED <<mitigation_strategies, risk_factors, activeTab, formData,
                       isSubmitting, dashVars, rep, aggVars>>

StoreInsertPushesToViews ==
    \E i \in 1..Len(inserts) :
        /\ inserts[i].answer = "pending"
        /\ \/ /\ StoreAccepts(inserts[i].row)
              /\ Len(risk_assessments) < MaxStore
              /\ \E at \in ServerStamps :
                    /\ risk_assessments' =
                          Append(risk_assessments, StoredRow(inserts[i].row, at))
                    /\ dash' = IF dash.mounted /\ ~dash.loading
                               THEN [dash EXCEPT !.assessments =
                                        <<StoredRow(inserts[i].row, at)>> \o @]
                               ELSE dash
              /\ inserts' = [inserts EXCEPT ![i].answer = "ok"]
           \/ /\ inserts' = [inserts EXCEPT ![i].answer = "error"]
              /\ UNCHANGED <<risk_assessments, dash>>
        /\ toast' = None /\ download' = << >>
        /\ UNCHANGED <<mitigation_strategies, risk_factors, activeTab, formData,
                       isSubmitting, evalAt, rep, aggVars>>

\* The store handles a pending insert: it appends the row, stamped with its
\* own clock, and answers without error, or it answers with an error and
\* appends nothing.
StoreInsert ==
    \E i \in 1..Len(inserts) :
        /\ inserts[i].answer = "pending"
        /\ \/ /\ StoreAccepts(inserts[i].row)
              /\ Len(risk_assessments) < MaxStore
              /\ \E at \in ServerStamps :
                    risk_assessments' =
                        Append(risk_assessments, StoredRow(inserts[i].row, at))
              /\ inserts' = [inserts EXCEPT ![i].answer = "ok"]
           \/ /\ inserts' = [inserts EXCEPT ![i].answer = "error"]
              /\ UNCHANGED risk_assessments
        /\ toast' = None /\ download' = << >>
        /\ UNCHANGED <<mitigation_strategies, risk_factors, activeTab, formData,
                       isSubmitting, dashVars, rep, aggVars>>

RemoveAt(s, i) == SubSeq(s, 1, i - 1) \o SubSeq(s, i + 1, Len(s))

\* handleSubmit past its await: on an error the catch block raises the
\* "Submission Error" notification; otherwise the success notification is
\* raised and the form is reset.  finally lowers the flag.  The state
\* setters of an instance that is no longer mounted do nothing.
handleSubmitSettledResetsAlways ==
    \E i \in 1..Len(inserts) :
        /\ inserts[i].answer # "pending"
        /\ toast' = IF inserts[i].answer = "error" THEN "Submission Error"
                    ELSE "Risk Assessment Submitted"
        /\ formData' = IF inserts[i].mounted THEN InitialFormData ELSE formData
        /\ isSubmitting' = IF inserts[i].mounted THEN FALSE ELSE isSubmitting
        /\ inserts' = RemoveAt(inserts, i)
        /\ download' = << >>
        /\ UNCHANGED <<storeVars, activeTab, dashVars, rep, aggVars>>

handleSubmitSettledLowersOnSuccess ==
    \E i \in 1..Len(inserts) :
        /\ inserts[i].answer # "pending"
        /\ IF inserts[i].answer = "error"
           THEN /\ toast' = "Submission Error"
                /\ UNCHANGED <<formData, isSubmitting>>
           ELSE /\ toast' = "Risk Assessment Submitted"
                /\ formData' = IF inserts[i].mounted THEN InitialFormData ELSE formData
                /\ isSubmitting' = IF inserts[i].mounted THEN FALSE ELSE isSubmitting
        /\ inserts' = RemoveAt(inserts, i)
        /\ download' = << >>
        /\ UNCHANGED <<storeVars, activeTab, dashVars, rep, aggVars>>

handleSubmitSettled ==
    \E i \in 1..Len(inserts) :
        /\ inserts[i].answer # "pending"
        /\ IF inserts[i].answer = "error"
           THEN /\ toast' = "Submission Error"
                /\ UNCHANGED formData
           ELSE /\ toast' = "Risk Assessment Submitted"
                /\ formData' = IF inserts[i].mounted THEN InitialFormData ELSE formData
        /\ isSubmitting' = IF inserts[i].mounted THEN FALSE ELSE isSubmitting
        /\ inserts' = RemoveAt(inserts, i)
        /\ download' = << >>
        /\ UNCHANGED <<storeVars, activeTab, dashVars, rep, aggVars>>

\* The form tab: a mounted RiskAssessmentForm, the tables as the migrations
\* leave them.
InitForm ==
    /\ activeTab = "form"
    /\ FormInit
    /\ risk_assessments = SampleAssessments
    /\ mitigation_strategies = SeedStrategies
    /\ risk_factors = SeedFactors
    /\ dash = Unmounted
    /\ evalAt = << >>
    /\ rep = Unmounted
    /\ toast = None
    /\ download = << >>
    /\ aggIn = [assessments |-> << >>, strategies |-> << >>, riskFactors |-> << >>]
    /\ aggOut = [view |-> None]

NextForm ==
    \/ setAiTool
    \/ setRiskType
    \/ setSeverity
    \/ setDescription
    \/ setEmail
    \/ setReportRequested
    \/ handleSubmit
    \/ StoreInsert
    \/ handleSubmitSettled

SpecForm == InitForm /\ [][NextForm]_vars

\* ------------------------------------------------------- the dashboard

\* select('*').order(column, { ascending: false }): the rows by descending
\* column, rows with equal values in table order.
RECURSIVE InsertByDesc(_, _, _)
InsertByDesc(sorted, row, column) ==
    IF sorted = << >> THEN <<row>>
    ELSE IF Head(sorted)[column] >= row[column]
         THEN <<Head(sorted)>> \o InsertByDesc(Tail(sorted), row, column)
         ELSE <<row>> \o sorted

RECURSIVE OrderDesc(_, _)
OrderDesc(rows, column) ==
    IF rows = << >> THEN << >>
    ELSE InsertByDesc(OrderDesc(SubSeq(rows, 1, Len(rows) - 1), column),
                      rows[Len(rows)], column)

\* The days oneWeekAgo.setDate(oneWeekAgo.getDate() - 7) goes back.
DaysBack == 7

\* setDate works on the local calendar: the result shows the same wall-clock
\* time seven days earlier, which is 7 * 24 hours before now, or an hour
\* less or more when the clocks changed in between.
ClockChanges == {-1, 0, 1}

OneWeekAgo(now, clockChange) == now - DaysBack * 24 + clockChange

\* data.filter(item => new Date(item.created_at) > oneWeekAgo)
weeklySubmissionsBeforeCutoff(data, oneWeekAgo) ==
    SelectSeq(data, LAMBDA item : item.created_at < oneWeekAgo)

weeklySubmissionsInclusive(data, oneWeekAgo) ==
    SelectSeq(data, LAMBDA item : item.created_at >= oneWeekAgo)

weeklySubmissions(data, oneWeekAgo) ==
    SelectSeq(data, LAMBDA item : item.created_at > oneWeekAgo)

\* The stats object fetchAllData passes to setStats.
StatsOfCriticalAndHighTogether(assessmentsData, strategiesData, oneWeekAgo) ==
    [total |-> Len(assessmentsData),
     critical |-> Len(SelectSeq(assessmentsData,
                                LAMBDA item : item.severity \in {"Critical", "High"})),
     high |-> Len(SelectSeq(assessmentsData, LAMBDA item : item.severity = "High")),
     thisWeek |-> Len(weeklySubmissions(assessmentsData, oneWeekAgo)),
     avgEffectiveness |-> IF Len(strategiesData) > 0
                          THEN AverageEffectiveness(strategiesData)
                          ELSE [num |-> 0, den |-> 1],
     sectorsAnalyzed |-> Cardinality({assessmentsData[i].ai_tool :
                                         i \in 1..Len(assessmentsData)})]

StatsOf(assessmentsData, strategiesData, oneWeekAgo) ==
    [total |-> Len(assessmentsData),
     critical |-> Len(SelectSeq(assessmentsData, LAMBDA item : item.severity = "Critical")),
     high |-> Len(SelectSeq(assessmentsData, LAMBDA item : item.severity = "High")),
     thisWeek |-> Len(weeklySubmissions(assessmentsData, oneWeekAgo)),
     avgEffectiveness |-> IF Len(strategiesData) > 0
                          THEN AverageEffectiveness(strategiesData)
                          ELSE [num |-> 0, den |-> 1],
     sectorsAnalyzed |-> Cardinality({assessmentsData[i].ai_tool :
                                         i \in 1..Len(assessmentsData)})]

\* The instant the browser's clock shows when a load evaluates new Date().
Nows == {RefTime}

\* fetchAllData past its await, no query having returned an error: the three
\* arrays and the stats are set, and finally loading is lowered.
fetchAllData ==
    /\ activeTab = "dashboard"
    /\ dash.mounted
    /\ dash.loading
    /\ \E now \in Nows, clockChange \in ClockChanges :
          LET assessmentsData == OrderDesc(risk_assessments, "created_at")
              strategiesData == OrderDesc(mitigation_strategies, "effectiveness_score")
              factorsData == OrderDesc(risk_factors, "frequency_percentage")
              oneWeekAgo == OneWeekAgo(now, clockChange)
          IN  /\ dash' = [dash EXCEPT !.assessments = assessmentsData,
                                      !.strategies = strategiesData,
                                      !.riskFactors = factorsData,
                                      !.stats = StatsOf(assessmentsData, strategiesData,
                                                        oneWeekAgo),
                                      !.loading = FALSE]
              /\ evalAt' = << [now |-> now, oneWeekAgo |-> oneWeekAgo] >>
    /\ toast' = None /\ download' = << >>
    /\ UNCHANGED <<storeVars, activeTab, formVars, rep, aggVars>>

Queries == {"risk_assessments", "mitigation_strategies", "risk_factors"}

\* fetchAllData past its await, some query having returned an error: the
\* error is thrown and logged, nothing is set, and finally loading is lowered.
fetchAllDataErrorKeepsAnswered ==
    /\ activeTab = "dashboard"
    /\ dash.mounted
    /\ dash.loading
    /\ \E failed \in SUBSET Queries :
          /\ failed # {}
          /\ dash' = [dash EXCEPT
                        !.assessments = IF "risk_assessments" \in failed THEN @
                                        ELSE OrderDesc(risk_assessments, "created_at"),
                        !.strategies = IF "mitigation_strategies" \in failed THEN @
                                       ELSE OrderDesc(mitigation_strategies,
                                                      "effectiveness_score"),
                        !.loading = FALSE]
    /\ toast' = None /\ download' = << >>
    /\ UNCHANGED <<storeVars, activeTab, formVars, evalAt, rep, aggVars>>

fetchAllDataError ==
    /\ activeTab = "dashboard"
    /\ dash.mounted
    /\ dash.loading
    /\ \E failed \in SUBSET Queries :
          /\ failed # {}
          /\ dash' = [dash EXCEPT !.loading = FALSE]
    /\ toast' = None /\ download' = << >>
    /\ UNCHANGED <<storeVars, activeTab, formVars, evalAt, rep, aggVars>>

\* What the dashboard renders: the placeholder while loading, else the
\* mitigation view when it was asked for, else the statistics and charts.
DashboardView(d) ==
    IF d.loading THEN "placeholder"
    ELSE IF d.showMitigation THEN "mitigation"
    ELSE "charts"

\* The (riskType, severity) pairs the rendered charts offer to click: the
\* Critical and High cards, a bar of the risk-type chart, and one of the
\* first eight recent assessments.
RiskClicks(d) ==
    { [riskType |-> "", severity |-> "Critical"], [riskType |-> "", severity |-> "High"] }
    \cup { [riskType |-> riskTypeData(d.assessments)[i][1], severity |-> None] :
               i \in 1..Len(riskTypeData(d.assessments)) }
    \cup { [riskType |-> d.assessments[i].risk_type,
            severity |-> d.assessments[i].severity] :
               i \in 1..(IF Len(d.assessments) < 8 THEN Len(d.assessments) ELSE 8) }

\* handleRiskClick(riskType, severity), from a click on a rendered chart.
handleRiskClickFromAnyRender ==
    /\ activeTab = "dashboard"
    /\ dash.mounted
    /\ \E click \in RiskClicks(dash) :
          dash' = [dash EXCEPT !.selectedRisk = click, !.showMitigation = TRUE,
                               !.mitigation = InitialMitigation]
    /\ toast' = None /\ download' = << >>
    /\ UNCHANGED <<storeVars, activeTab, formVars, evalAt, rep, aggVars>>

handleRiskClick ==
    /\ activeTab = "dashboard"
    /\ dash.mounted
    /\ DashboardView(dash) = "charts"
    /\ \E click \in RiskClicks(dash) :
          dash' = [dash EXCEPT !.selectedRisk = click, !.showMitigation = TRUE,
                               !.mitigation = InitialMitigation]
    /\ toast' = None /\ download' = << >>
    /\ UNCHANGED <<storeVars, activeTab, formVars, evalAt, rep, aggVars>>

\* setShowMitigation(true) of the strategies button, setShowMitigation(false)
\* of the mitigation view's back button.  The render that follows mounts
\* MitigationDashboard, or unmounts it.
setShowMitigation ==
    /\ activeTab = "dashboard"
    /\ dash.mounted
    /\ DashboardView(dash) \in {"charts", "mitigation"}
    /\ dash' = [dash EXCEPT !.showMitigation = (DashboardView(dash) = "charts"),
                            !.mitigation = IF DashboardView(dash) = "charts"
                                           THEN InitialMitigation ELSE Unmounted]
    /\ toast' = None /\ download' = << >>
    /\ UNCHANGED <<storeVars, activeTab, formVars, evalAt, rep, aggVars>>

\* if (selectedRiskType): a prop that is neither undefined nor empty.
Truthy(prop) == prop # None /\ prop # ""

\* query.eq(column, value)
Eq(rows, column, value) == SelectSeq(rows, LAMBDA row : row[column] = value)

\* strategiesQuery and factorsQuery of fetchMitigationData as the store
\* answers them.
strategiesQueryByRiskTypeOnly(selectedRiskType, selectedSeverity) ==
    OrderDesc(IF Truthy(selectedRiskType)
              THEN Eq(mitigation_strategies, "risk_type", selectedRiskType)
              ELSE mitigation_strategies,
              "effectiveness_score")

strategiesQuery(selectedRiskType, selectedSeverity) ==
    LET ofRiskType == IF Truthy(selectedRiskType)
                      THEN Eq(mitigation_strategies, "risk_type", selectedRiskType)
                      ELSE mitigation_strategies
        ofSeverity == IF Truthy(selectedSeverity)
                      THEN Eq(ofRiskType, "severity", selectedSeverity)
                      ELSE ofRiskType
    IN  OrderDesc(ofSeverity, "effectiveness_score")

factorsQuery(selectedRiskType) ==
    OrderDesc(IF Truthy(selectedRiskType)
              THEN Eq(risk_factors, "risk_type", selectedRiskType)
              ELSE risk_factors,
              "frequency_percentage")

\* fetchMitigationData past its awaits, neither query having returned an
\* error: both arrays are set, and finally loading is lowered.  The props are
\* selectedRisk.riskType and selectedRisk.severity of the dashboard.
fetchMitigationData ==
    /\ activeTab = "dashboard"
    /\ dash.mounted
    /\ DashboardView(dash) = "mitigation"
    /\ dash.mitigation.loading
    /\ dash' = [dash EXCEPT !.mitigation =
                   [mounted |-> TRUE,
                    strategies |-> strategiesQuery(dash.selectedRisk.riskType,
                                                   dash.selectedRisk.severity),
                    riskFactors |-> factorsQuery(dash.selectedRisk.riskType),
                    loading |-> FALSE]]
    /\ toast' = None /\ download' = << >>
    /\ UNCHANGED <<storeVars, activeTab, formVars, evalAt, rep, aggVars>>

MitigationQueries == {"mitigation_strategies", "risk_factors"}

\* fetchMitigationData past its awaits, a query having returned an error:
\* the error is thrown and logged, nothing is set, and finally loading is
\* lowered.
fetchMitigationDataError ==
    /\ activeTab = "dashboard"
    /\ dash.mounted
    /\ DashboardView(dash) = "mitigation"
    /\ dash.mitigation.loading
    /\ \E failed \in SUBSET MitigationQueries :
          /\ failed # {}
          /\ dash' = [dash EXCEPT !.mitigation.loading = FALSE]
    /\ toast' = None /\ download' = << >>
    /\ UNCHANGED <<storeVars, activeTab, formVars, evalAt, rep, aggVars>>

\* What risk_assessments can hold when a dashboard loads: rows of three
\* severities, stamped a week and more before the browser's clock, within
\* the week, and after it.
DashStamps == {RefTime - 169, RefTime - 168, RefTime - 167, RefTime + 1}

DashRecords ==
    {Assessment("Other", "Misinformation", s, << >>, << >>, FALSE, at) :
        s \in {"Critical", "High", "Low"}, at \in DashStamps}

\* The dashboard tab, just entered: a mounted instance whose load is pending.
InitDash ==
    /\ activeTab = "dashboard"
    /\ dash = InitialDash
    /\ evalAt = << >>
    /\ risk_assessments \in SeqsUpTo(DashRecords, MaxList)
    /\ mitigation_strategies \in {<< >>, SeedStrategies}
    /\ risk_factors = SeedFactors
    /\ FormInit
    /\ rep = Unmounted
    /\ toast = None
    /\ download = << >>
    /\ aggIn = [assessments |-> << >>, strategies |-> << >>, riskFactors |-> << >>]
    /\ aggOut = [view |-> None]

NextDash ==
    \/ fetchAllData
    \/ fetchAllDataError
    \/ handleRiskClick
    \/ setShowMitigation
    \/ fetchMitigationData
    \/ fetchMitigationDataError

SpecDash == InitDash /\ [][NextDash]_vars

\* The tables a mitigation lookup reads: seeded strategies and factors of two
\* risk types, and assessments of those types for the dashboard's charts.
LookupStrategies ==
    << Strategy("Privacy Concerns", "High", <<"Advanced Encryption">>, 9),
       Strategy("Misinformation", "High", <<"Fact-Checking Integration">>, 8),
       Strategy("Misinformation", "Critical", <<"Source Verification">>, 9) >>

LookupFactors ==
    << Factor("Privacy Concerns", <<"Data Collection Overreach">>, "High", 4930),
       Factor("Misinformation", <<"Content Hallucination">>, "Critical", 4370) >>

LookupRecords ==
    { Assessment("Other", "Misinformation", "Critical", << >>, << >>, FALSE, RefTime - 1),
      Assessment("Other", "Privacy Concerns", "High", << >>, << >>, FALSE, RefTime - 1),
      Assessment("Other", "Privacy Concerns", "Low", << >>, << >>, FALSE, RefTime - 1) }

\* Longest risk_assessments table a lookup's dashboard loads.
MaxLookup == 2

InitMitigation ==
    /\ activeTab = "dashboard"
    /\ dash = InitialDash
    /\ evalAt = << >>
    /\ risk_assessments \in SeqsUpTo(LookupRecords, MaxLookup)
    /\ mitigation_strategies = LookupStrategies
    /\ risk_factors = LookupFactors
    /\ FormInit
    /\ rep = Unmounted
    /\ toast = None
    /\ download = << >>
    /\ aggIn = [assessments |-> << >>, strategies |-> << >>, riskFactors |-> << >>]
    /\ aggOut = [view |-> None]

SpecMitigation == InitMitigation /\ [][NextDash]_vars

\* ------------------------------------------------------------------ text

Quote == "\""

Backslash == "\\"

Newline == "\n"

Comma == ","

Space == " "

\* The two spaces JSON.stringify(value, null, 2) indents a level by.
Indent == "  "

\* The characters of a label: one atom, none for the empty string.
Chars(label) == IF label = "" THEN << >> ELSE <<label>>

RECURSIVE Gcd(_, _)
Gcd(a, b) == IF b = 0 THEN a ELSE Gcd(b, a % b)

\* The digits a number prints as: an atom that names the number's value.
NumberText(num, den) ==
    IF den = 0 THEN "NaN"
    ELSE LET g == Gcd(num, den)
         IN  IF den \div g = 1 THEN ToString(num \div g)
             ELSE ToString(<<num \div g, den \div g>>)

\* JavaScript values as JSON sees them.
JString(chars) == [t |-> "string", v |-> chars]

JNumber(num, den) == [t |-> "number", v |-> <<NumberText(num, den)>>]

JBoolean(b) == [t |-> "boolean", v |-> <<IF b THEN "true" ELSE "false">>]

JNull == [t |-> "null", v |-> << >>]

JArray(elements) == [t |-> "array", v |-> elements]

JObject(members) == [t |-> "object", v |-> members]

Member(key, value) == [k |-> key, e |-> value]

\* JSON.stringify's quoting of a string's characters.
RECURSIVE EscapeLeavesQuotes(_)
EscapeLeavesQuotes(chars) ==
    IF chars = << >> THEN << >>
    ELSE (CASE Head(chars) = Backslash -> <<Backslash, Backslash>>
            [] Head(chars) = Newline -> <<Backslash, "n">>
            [] OTHER -> <<Head(chars)>>) \o EscapeLeavesQuotes(Tail(chars))

RECURSIVE Escape(_)
Escape(chars) ==
    IF chars = << >> THEN << >>
    ELSE (CASE Head(chars) = Quote -> <<Backslash, Quote>>
            [] Head(chars) = Backslash -> <<Backslash, Backslash>>
            [] Head(chars) = Newline -> <<Backslash, "n">>
            [] OTHER -> <<Head(chars)>>) \o Escape(Tail(chars))

Indentation(depth) == [i \in 1..depth |-> Indent]

\* JSON.stringify(value, null, 2) at a nesting depth.
RECURSIVE Stringify(_, _)
RECURSIVE StringifyItems(_, _, _)
RECURSIVE StringifyMembers(_, _, _)
StringifyItems(elements, depth, i) ==
    IF i > Len(elements) THEN << >>
    ELSE <<Newline>> \o Indentation(depth) \o Stringify(elements[i], depth)
         \o (IF i < Len(elements) THEN <<Comma>> ELSE << >>)
         \o StringifyItems(elements, depth, i + 1)

StringifyMembers(members, depth, i) ==
    IF i > Len(members) THEN << >>
    ELSE <<Newline>> \o Indentation(depth)
         \o <<Quote>> \o Escape(<<members[i].k>>) \o <<Quote, ":", Space>>
         \o Stringify(members[i].e, depth)
         \o (IF i < Len(members) THEN <<Comma>> ELSE << >>)
         \o StringifyMembers(members, depth, i + 1)

Stringify(value, depth) ==
    CASE value.t = "string" -> <<Quote>> \o Escape(value.v) \o <<Quote>>
      [] value.t = "number" -> IF value.v = <<"NaN">> THEN <<"null">> ELSE value.v
      [] value.t = "boolean" -> value.v
      [] value.t = "null" -> <<"null">>
      [] value.t = "array" ->
            IF value.v = << >> THEN <<"[", "]">>
            ELSE <<"[">> \o StringifyItems(value.v, depth + 1, 1)
                 \o <<Newline>> \o Indentation(depth) \o <<"]">>
      [] value.t = "object" ->
            IF value.v = << >> THEN <<"{", "}">>
            ELSE <<"{">> \o StringifyMembers(value.v, depth + 1, 1)
                 \o <<Newline>> \o Indentation(depth) \o <<"}">>

\* JSON.parse: a parse yields [ok, val, next], next the index past the value.
Failed == [ok |-> FALSE, val |-> JNull, next |-> 0]

Parsed(value, next) == [ok |-> TRUE, val |-> value, next |-> next]

Whitespace == {Newline, Space, Indent}

Punctuation == {"[", "]", "{", "}", ":", Comma, Backslash, Quote}

\* The index of the first atom at or after i that is not white space.
SkipWhitespace(text, i) ==
    LET stops == {j \in i..Len(text) : text[j] \notin Whitespace}
    IN  IF stops = {} THEN Len(text) + 1
        ELSE CHOOSE j \in stops : \A k \in stops : j <= k

\* The characters of a string literal whose opening quote precedes index i.
RECURSIVE ParseChars(_, _, _)
ParseChars(text, i, acc) ==
    IF i > Len(text) THEN Failed
    ELSE CASE text[i] = Quote -> Parsed(JString(acc), i + 1)
           [] text[i] = Newline -> Failed
           [] text[i] = Backslash ->
                IF i + 1 > Len(text) THEN Failed
                ELSE CASE text[i + 1] = Quote -> ParseChars(text, i + 2, Append(acc, Quote))
                       [] text[i + 1] = Backslash ->
                            ParseChars(text, i + 2, Append(acc, Backslash))
                       [] text[i + 1] = "n" -> ParseChars(text, i + 2, Append(acc, Newline))
                       [] OTHER -> Failed
           [] OTHER -> ParseChars(text, i + 1, Append(acc, text[i]))

RECURSIVE ParseValue(_, _)
RECURSIVE ParseItems(_, _, _)
RECURSIVE ParseMembers(_, _, _)
\* The elements of an array after "[" or after a comma.
ParseItems(text, i, acc) ==
    LET item == ParseValue(text, i)
        j == SkipWhitespace(text, item.next)
    IN  IF ~item.ok \/ j > Len(text) THEN Failed
        ELSE CASE text[j] = Comma -> ParseItems(text, j + 1, Append(acc, item.val))
               [] text[j] = "]" -> Parsed(JArray(Append(acc, item.val)), j + 1)
               [] OTHER -> Failed

\* The members of an object after "{" or after a comma.
ParseMembers(text, i, acc) ==
    LET q == SkipWhitespace(text, i)
        key == IF q <= Len(text) /\ text[q] = Quote
               THEN ParseChars(text, q + 1, << >>) ELSE Failed
        c == SkipWhitespace(text, key.next)
        item == IF key.ok /\ c <= Len(text) /\ text[c] = ":" /\ Len(key.val.v) = 1
                THEN ParseValue(text, c + 1) ELSE Failed
        j == SkipWhitespace(text, item.next)
    IN  IF ~item.ok \/ j > Len(text) THEN Failed
        ELSE LET members == Append(acc, Member(key.val.v[1], item.val))
             IN  CASE text[j] = Comma -> ParseMembers(text, j + 1, members)
                   [] text[j] = "}" -> Parsed(JObject(members), j + 1)
                   [] OTHER -> Failed

ParseValue(text, i) ==
    LET j == SkipWhitespace(text, i)
    IN  IF j > Len(text) THEN Failed
        ELSE CASE text[j] = Quote -> ParseChars(text, j + 1, << >>)
               [] text[j] = "[" ->
                    LET k == SkipWhitespace(text, j + 1)
                    IN  IF k <= Len(text) /\ text[k] = "]" THEN Parsed(JArray(<< >>), k + 1)
                        ELSE ParseItems(text, j + 1, << >>)
               [] text[j] = "{" ->
                    LET k == SkipWhitespace(text, j + 1)
                    IN  IF k <= Len(text) /\ text[k] = "}" THEN Parsed(JObject(<< >>), k + 1)
                        ELSE ParseMembers(text, j + 1, << >>)
               [] text[j] \in {"true", "false"} -> Parsed([t |-> "boolean", v |-> <<text[j]>>], j + 1)
               [] text[j] = "null" -> Parsed(JNull, j + 1)
               [] text[j] \in Punctuation -> Failed
               [] OTHER -> Parsed([t |-> "number", v |-> <<text[j]>>], j + 1)

\* JSON.parse(text): the value, when the text is one JSON value and nothing else.
JSONparse(text) ==
    LET r == ParseValue(text, 1)
    IN  IF r.ok /\ SkipWhitespace(text, r.next) = Len(text) + 1 THEN r ELSE Failed

\* ------------------------------------------------------ the reports view

\* Rows as the objects a select returns, columns in table order.
AssessmentJson(row) ==
    JObject(<< Member("ai_tool", JString(Chars(row.ai_tool))),
               Member("risk_type", JString(Chars(row.risk_type))),
               Member("severity", JString(Chars(row.severity))),
               Member("description", JString(row.description)),
               Member("email", JString(row.email)),
               Member("report_requested", JBoolean(row.report_requested)),
               Member("created_at", JString(<<ToString(row.created_at)>>)) >>)

StrategyJson(row) ==
    JObject(<< Member("risk_type", JString(Chars(row.risk_type))),
               Member("severity", JString(Chars(row.severity))),
               Member("strategy_title", JString(row.strategy_title)),
               Member("effectiveness_score", JNumber(row.effectiveness_score, 1)) >>)

FactorJson(row) ==
    JObject(<< Member("risk_type", JString(Chars(row.risk_type))),
               Member("factor_name", JString(row.factor_name)),
               Member("impact_level", JString(Chars(row.impact_level))),
               Member("frequency_percentage", JNumber(row.frequency_percentage, 100)) >>)

RowsJson(rows, kind) ==
    JArray([i \in 1..Len(rows) |->
              CASE kind = "risk_assessments" -> AssessmentJson(rows[i])
                [] kind = "mitigation_strategies" -> StrategyJson(rows[i])
                [] kind = "risk_factors" -> FactorJson(rows[i])])

\* new Date().toISOString(), and its part before the 'T'.
IsoStringToTheDay(now) == ToString(now \div 24)

IsoString(now) == ToString(now)

IsoDate(now) == ToString(now \div 24)

\* The metadata object that goes with the assessments.
ExportMetadataWithoutVersion(assessments, now) ==
    JObject(<< Member("exported_by", JString(<<"AI Risk Assessment Dashboard">>)),
               Member("export_date", JString(<<IsoString(now)>>)),
               Member("total_assessments", JNumber(Len(assessments), 1)),
               Member("data_quality_score", JNumber(92, 10)) >>)

ExportMetadata(assessments, now) ==
    JObject(<< Member("exported_by", JString(<<"AI Risk Assessment Dashboard">>)),
               Member("export_date", JString(<<IsoString(now)>>)),
               Member("total_assessments", JNumber(Len(assessments), 1)),
               Member("data_quality_score", JNumber(92, 10)),
               Member("analysis_version", JString(<<"v2.1">>)) >>)

\* The object exportData builds for a data type, members in insertion order.
ExportObject(dataType, assessments, strategies, riskFactors, now) ==
    JObject(
      (IF dataType \in {"all", "assessments"}
       THEN << Member("risk_assessments", RowsJson(assessments, "risk_assessments")),
               Member("metadata", ExportMetadata(assessments, now)) >>
       ELSE << >>)
      \o
      (IF dataType \in {"all", "strategies"}
       THEN << Member("mitigation_strategies", RowsJson(strategies, "mitigation_strategies")),
               Member("strategy_summary", JObject(<<
                   Member("total_strategies", JNumber(Len(strategies), 1)),
                   Member("average_effectiveness",
                          JNumber(SumSeq([i \in 1..Len(strategies) |->
                                            strategies[i].effectiveness_score]),
                                  Len(strategies))),
                   Member("sectors_covered",
                          JNumber(Cardinality({strategies[i].risk_type :
                                                  i \in 1..Len(strategies)}), 1)) >>)) >>
       ELSE << >>)
      \o
      (IF dataType \in {"all", "factors"}
       THEN << Member("risk_factors", RowsJson(riskFactors, "risk_factors")),
               Member("factor_analysis", JObject(<<
                   Member("total_factors", JNumber(Len(riskFactors), 1)),
                   Member("high_impact_factors",
                          JNumber(Len(SelectSeq(riskFactors,
                                      LAMBDA f : f.impact_level = "Critical")), 1)),
                   Member("average_frequency",
                          JNumber(SumSeq([i \in 1..Len(riskFactors) |->
                                            riskFactors[i].frequency_percentage]),
                                  100 * Len(riskFactors))) >>)) >>
       ELSE << >>))

\* The member of an object under a key: << >>, or the value in a sequence.
Get(object, key) ==
    LET at == {i \in 1..Len(object.v) : object.v[i].k = key}
    IN  IF at = {} THEN << >> ELSE <<object.v[CHOOSE i \in at : TRUE].e>>

\* Array.prototype.join
RECURSIVE Join(_, _)
Join(texts, separator) ==
    IF texts = << >> THEN << >>
    ELSE IF Len(texts) = 1 THEN texts[1]
    ELSE texts[1] \o <<separator>> \o Join(Tail(texts), separator)

\* `${val}`: the text a value takes inside a template literal.
TemplateText(value) == IF value.t = "null" THEN <<"null">> ELSE value.v

\* convertToCSV: a header line of the first row's keys, then a line per row
\* of its values, each between quotes.
convertToCSV(data) ==
    LET found == Get(data, "risk_assessments")
    IN  IF found = << >> THEN << >>
        ELSE LET rows == found[1].v
                 first == IF rows = << >> THEN JObject(<< >>) ELSE rows[1]
                 headers == Join([i \in 1..Len(first.v) |-> <<first.v[i].k>>], Comma)
                 line(item) ==
                     Join([i \in 1..Len(item.v) |->
                             <<Quote>> \o TemplateText(item.v[i].e) \o <<Quote>>], Comma)
             IN  headers \o <<Newline>>
                 \o Join([i \in 1..Len(rows) |-> line(rows[i])], Newline)

\* The three export buttons of the view.
ExportButtons ==
    { [format |-> "json", dataType |-> "all"],
      [format |-> "csv", dataType |-> "assessments"],
      [format |-> "json", dataType |-> "strategies"] }

\* The instants the browser's clock can show at an export.
ExportNows == {RefTime, RefTime + 1, RefTime + 24}

\* The type of the Blob.
MimeTypeOfJson(format) == "application/json"

MimeType(format) == IF format = "json" THEN "application/json" ELSE "text/csv"

\* The file link.click() hands the browser.
ExportFile(format, dataType, r, now) ==
    LET exportObject == ExportObject(dataType, r.assessments, r.strategies,
                                     r.riskFactors, now)
    IN  [name |-> <<"ai-risk-comprehensive-", dataType, "-", IsoDate(now), ".", format>>,
         type |-> MimeType(format),
         text |-> IF format = "csv" THEN convertToCSV(exportObject)
                  ELSE Stringify(exportObject, 0)]

\* fetchAllData of the reports view past its await, no query having returned
\* an error: the three arrays are set, and finally loading is lowered.
reportsFetchAllData ==
    /\ activeTab = "reports"
    /\ rep.mounted
    /\ rep.loading
    /\ rep' = [rep EXCEPT !.assessments = OrderDesc(risk_assessments, "created_at"),
                          !.strategies = OrderDesc(mitigation_strategies,
                                                   "effectiveness_score"),
                          !.riskFactors = OrderDesc(risk_factors, "frequency_percentage"),
                          !.loading = FALSE]
    /\ toast' = None /\ download' = << >>
    /\ UNCHANGED <<storeVars, activeTab, formVars, dashVars, aggVars>>

\* The same, some query having returned an error: the error is thrown, the
\* catch raises a notification, nothing is set, and finally loading is lowered.
reportsFetchAllDataErrorStaysLoading ==
    /\ activeTab = "reports"
    /\ rep.mounted
    /\ rep.loading
    /\ toast' = "Data Fetch Error" /\ download' = << >>
    /\ UNCHANGED <<storeVars, activeTab, formVars, dashVars, rep, aggVars>>

reportsFetchAllDataError ==
    /\ activeTab = "reports"
    /\ rep.mounted
    /\ rep.loading
    /\ \E failed \in SUBSET Queries :
          /\ failed # {}
          /\ rep' = [rep EXCEPT !.loading = FALSE]
    /\ toast' = "Data Fetch Error" /\ download' = << >>
    /\ UNCHANGED <<storeVars, activeTab, formVars, dashVars, aggVars>>

\* onChange of the report's email input.
setReportEmail ==
    /\ activeTab = "reports"
    /\ rep.mounted
    /\ ~rep.loading
    /\ \E v \in UserEmails \cup {<< >>} :
          /\ v # rep.email
          /\ rep' = [rep EXCEPT !.email = v]
    /\ toast' = None /\ download' = << >>
    /\ UNCHANGED <<storeVars, activeTab, formVars, dashVars, aggVars>>

\* generateComprehensiveReport up to its await: without an email a
\* notification and nothing else, with one isExporting is raised.
generateComprehensiveReport ==
    /\ activeTab = "reports"
    /\ rep.mounted
    /\ ~rep.loading
    /\ ~rep.isExporting
    /\ IF rep.email = << >>
       THEN toast' = "Email Required" /\ UNCHANGED rep
       ELSE toast' = None /\ rep' = [rep EXCEPT !.isExporting = TRUE]
    /\ download' = << >>
    /\ UNCHANGED <<storeVars, activeTab, formVars, dashVars, aggVars>>

\* generateComprehensiveReport past its two-second await.
generateComprehensiveReportSettled ==
    /\ activeTab = "reports"
    /\ rep.mounted
    /\ rep.isExporting
    /\ rep' = [rep EXCEPT !.email = << >>, !.isExporting = FALSE]
    /\ toast' = "Report Generated Successfully" /\ download' = << >>
    /\ UNCHANGED <<storeVars, activeTab, formVars, dashVars, aggVars>>

\* exportData(format, dataType), from a click on one of the export buttons.
\* It runs to its end without an await, so isExporting is raised and lowered
\* within the one step.
exportData ==
    /\ activeTab = "reports"
    /\ rep.mounted
    /\ ~rep.loading
    /\ ~rep.isExporting
    /\ \E button \in ExportButtons, now \in ExportNows :
          IF Len(rep.assessments) = 0 /\ Len(rep.strategies) = 0 /\ Len(rep.riskFactors) = 0
          THEN /\ toast' = "No Data Available"
               /\ download' = << >>
          ELSE /\ download' = << ExportFile(button.format, button.dataType, rep, now) >>
               /\ toast' = "Export Completed"
    /\ UNCHANGED <<storeVars, activeTab, formVars, dashVars, rep, aggVars>>

\* Descriptions users have typed: one with quotation marks, one with a
\* backslash before an n, a line break and a comma.
ExportTexts ==
    { <<"It said ", Quote, "trust me", Quote>>,
      <<"C:", Backslash, "n", Newline, "second line", Comma, " and more">> }

ReportRecords ==
    {Assessment("Other", "Misinformation", "Critical", d, <<"user@email.com">>, TRUE,
                RefTime - 1) : d \in ExportTexts}

\* The reports tab, just entered: a mounted instance whose load is pending.
InitReports ==
    /\ activeTab = "reports"
    /\ rep = InitialReports
    /\ risk_assessments \in SeqsUpTo(ReportRecords, MaxExport)
    /\ mitigation_strategies \in {<< >>, SeedStrategies}
    /\ risk_factors \in {<< >>, SeedFactors}
    /\ FormInit
    /\ dash = Unmounted
    /\ evalAt = << >>
    /\ toast = None
    /\ download = << >>
    /\ aggIn = [assessments |-> << >>, strategies |-> << >>, riskFactors |-> << >>]
    /\ aggOut = [view |-> None]

NextReports ==
    \/ reportsFetchAllData
    \/ reportsFetchAllDataError
    \/ setReportEmail
    \/ generateComprehensiveReport
    \/ generateComprehensiveReportSettled
    \/ exportData

SpecReports == InitReports /\ [][NextReports]_vars

\* ------------------------------------------------------ the application

Tabs == {"form", "dashboard", "reports"}

\* setActiveTab(tab) from the navigation bar: renderActiveTab unmounts the
\* component of the tab left and mounts the one of the tab entered, with its
\* useState initial values and its load pending.  Insert calls of the form
\* left behind stay in flight; their instance is gone.
setActiveTabKeepsViews ==
    \E tab \in Tabs :
        /\ tab # activeTab
        /\ activeTab' = tab
        /\ formData' = InitialFormData
        /\ isSubmitting' = FALSE
        /\ inserts' = [i \in 1..Len(inserts) |-> [inserts[i] EXCEPT !.mounted = FALSE]]
        /\ dash' = IF tab = "dashboard" /\ ~dash.mounted THEN InitialDash ELSE dash
        /\ evalAt' = evalAt
        /\ rep' = IF tab = "reports" /\ ~rep.mounted THEN InitialReports ELSE rep
        /\ toast' = None /\ download' = << >>
        /\ UNCHANGED <<storeVars, aggVars>>

setActiveTab ==
    \E tab \in Tabs :
        /\ tab # activeTab
        /\ activeTab' = tab
        /\ formData' = InitialFormData
        /\ isSubmitting' = FALSE
        /\ inserts' = [i \in 1..Len(inserts) |-> [inserts[i] EXCEPT !.mounted = FALSE]]
        /\ dash' = IF tab = "dashboard" THEN InitialDash ELSE Unmounted
        /\ evalAt' = << >>
        /\ rep' = IF tab = "reports" THEN InitialReports ELSE Unmounted
        /\ toast' = None /\ download' = << >>
        /\ UNCHANGED <<storeVars, aggVars>>

\* The application as Index first renders it.
InitApp == InitForm

NextApp ==
    \/ setActiveTab
    \/ setAiTool
    \/ setRiskType
    \/ setSeverity
    \/ setDescription
    \/ setEmail
    \/ setReportRequested
    \/ handleSubmit
    \/ StoreInsert
    \/ handleSubmitSettled
    \/ fetchAllData
    \/ fetchAllDataError
    \/ handleRiskClick
    \/ setShowMitigation
    \/ fetchMitigationData
    \/ fetchMitigationDataError
    \/ reportsFetchAllData
    \/ reportsFetchAllDataError
    \/ setReportEmail
    \/ generateComprehensiveReport
    \/ generateComprehensiveReportSettled
    \/ exportData

SpecApp == InitApp /\ [][NextApp]_vars

\* ------------------------------------------------ aggregator properties

Rendered(view) == aggOut.view = view

\* How many records of list carry label k in field.
Carrying(list, field, k) == Cardinality({j \in 1..Len(list) : list[j][field] = k})

Counts(obj) == [i \in 1..Len(obj) |-> obj[i][2]]

\* C1: for every input list, the empty one and those with repeated labels
\* included, the counts of the severity grouping sum to the number of records.
C1_SeverityCountsSumToLength ==
    Rendered("dashboard") =>
        SumSeq(Counts(aggOut.severityData)) = Len(aggIn.assessments)

C1_Witness ==
    /\ Rendered("dashboard")
    /\ Len(aggIn.assessments) = 3
    /\ Len(aggOut.severityData) = 2

\* An object groups list by field exactly: one key per label carried, each
\* key's count the number of records carrying it, no key without a record.
GroupsExactly(obj, list, field) ==
    /\ \A i \in 1..Len(obj) :
          /\ obj[i][2] = Carrying(list, field, obj[i][1])
          /\ obj[i][2] >= 1
    /\ \A i, j \in 1..Len(obj) : obj[i][1] = obj[j][1] => i = j
    /\ \A j \in 1..Len(list) : \E i \in 1..Len(obj) : obj[i][1] = list[j][field]

\* C2: in each of the three groupings the count of a label is the number of
\* records carrying it, and only labels some record carries are keys.
C2_GroupingsCountExactly ==
    Rendered("dashboard") =>
        /\ GroupsExactly(aggOut.severityData, aggIn.assessments, "severity")
        /\ GroupsExactly(aggOut.toolData, aggIn.assessments, "ai_tool")
        /\ GroupsExactly(aggOut.riskTypeData, aggIn.assessments, "risk_type")

\* The spec's example: two Critical and one Low record.
C2_Witness ==
    /\ Rendered("dashboard")
    /\ aggIn.assessments =
          << Assessment("Other", "Misinformation", "Critical", << >>, << >>, FALSE, RefTime),
             Assessment("Other", "Privacy Concerns", "Critical", << >>, << >>, FALSE, RefTime),
             Assessment("ChatGPT/OpenAI", "Misinformation", "Low", << >>, << >>, FALSE, RefTime) >>
    /\ aggOut.severityData = << <<"Critical", 2>>, <<"Low", 1>> >>
    /\ aggOut.riskTypeData = << <<"Misinformation", 2>>, <<"Privacy Concerns", 1>> >>

\* C3 as claimed: criticalPercentage is 0 for an empty list and within
\* [0, 100] for every other.
C3_AsClaimed ==
    Rendered("reports") =>
        /\ aggOut.insights # << >>
        /\ IF Len(aggIn.assessments) = 0
           THEN aggOut.insights[1].criticalPercentage = 0
           ELSE aggOut.insights[1].criticalPercentage \in 0..1000

\* C3 as amended: for an empty list the insights are null, so no
\* criticalPercentage is reported and nothing is divided; for every other
\* list criticalPercentage lies within [0, 100].
C3_NullWhenEmptyElseInRange ==
    Rendered("reports") =>
        IF Len(aggIn.assessments) = 0
        THEN aggOut.insights = << >>
        ELSE /\ aggOut.insights # << >>
             /\ aggOut.insights[1].criticalPercentage \in 0..1000

\* A reports view that loaded strategies but no assessment renders no insights.
C3_Witness ==
    /\ Rendered("reports")
    /\ Len(aggIn.assessments) = 0
    /\ aggIn.strategies # << >>
    /\ aggOut.insights = << >>

\* C4: for a non-empty list criticalPercentage is 100 * critical / total to
\* the nearest tenth, and 0 when no record is Critical.
C4_CriticalPercentageIsRoundedShare ==
    (Rendered("reports") /\ Len(aggIn.assessments) > 0) =>
        LET n == Len(aggIn.assessments)
            c == Carrying(aggIn.assessments, "severity", "Critical")
            p == aggOut.insights[1].criticalPercentage
            off == p * n - 1000 * c
        IN  /\ 2 * off <= n
            /\ 2 * (0 - off) <= n
            /\ c = 0 => p = 0

\* The spec's example: 2 Critical of 3 records give 66.7.
C4_Witness ==
    /\ Rendered("reports")
    /\ Len(aggIn.assessments) = 3
    /\ Carrying(aggIn.assessments, "severity", "Critical") = 2
    /\ aggOut.insights[1].criticalPercentage = 667

\* ------------------------------------------------------ form properties

RequiredFieldsSet(row) ==
    /\ row.ai_tool # ""
    /\ row.risk_type # ""
    /\ row.severity \in Severities

\* C7: no insert is issued while aiTool, riskType or severity is empty: every
\* insert call the form has sent, and every row it has put into the table,
\* carries a non-empty aiTool and riskType and one of the four severities.
C7_InsertsCarryRequiredFields ==
    /\ \A i \in 1..Len(inserts) : RequiredFieldsSet(inserts[i].row)
    /\ \A j \in 1..Len(risk_assessments) : RequiredFieldsSet(risk_assessments[j])

\* A submitted row has reached the table while the description was left empty.
C7_Witness ==
    /\ Len(risk_assessments) = 2
    /\ risk_assessments[2].description = << >>
    /\ toast = "Risk Assessment Submitted"

\* The step in which handleSubmit resumes with the store's answer.
SettledWith(answer) ==
    \E i \in 1..Len(inserts) :
        /\ inserts[i].answer = answer
        /\ inserts' = RemoveAt(inserts, i)

\* A user's edit of one form field.
FieldEdit ==
    /\ inserts' = inserts
    /\ Cardinality({f \in DOMAIN formData : formData'[f] # formData[f]}) = 1

Loaded == dash.mounted /\ ~dash.loading /\ evalAt # << >>

\* C5 as claimed: weeklyCount never exceeds the total and equals it whenever
\* every record was created within the 7 days (168 hours) before the
\* evaluation time.
C5_AsClaimed ==
    Loaded =>
        /\ dash.stats.thisWeek <= dash.stats.total
        /\ (\A i \in 1..Len(dash.assessments) :
               /\ dash.assessments[i].created_at >= evalAt[1].now - 168
               /\ dash.assessments[i].created_at <= evalAt[1].now)
           => dash.stats.thisWeek = dash.stats.total

\* C5 as amended: weeklyCount never exceeds the total and equals it whenever
\* every record was created strictly after the cutoff of the load, which is
\* 168 hours before the evaluation time give or take a clock change.
C5_WeeklyAtMostTotal ==
    Loaded =>
        /\ dash.stats.total = Len(dash.assessments)
        /\ dash.stats.thisWeek <= dash.stats.total
        /\ evalAt[1].oneWeekAgo - (evalAt[1].now - 168) \in {-1, 0, 1}
        /\ (\A i \in 1..Len(dash.assessments) :
               dash.assessments[i].created_at > evalAt[1].oneWeekAgo)
           => dash.stats.thisWeek = dash.stats.total

\* All records after the cutoff, one of them after the evaluation time.
C5_Witness ==
    /\ Loaded
    /\ Len(dash.assessments) = 3
    /\ \A i \in 1..Len(dash.assessments) :
          dash.assessments[i].created_at > evalAt[1].oneWeekAgo
    /\ \E i \in 1..Len(dash.assessments) :
          dash.assessments[i].created_at > evalAt[1].now
    /\ dash.stats.thisWeek = 3

\* C6 as claimed: weeklyCount counts exactly the records of the trailing
\* 7-day window: created no earlier than 168 hours before the evaluation
\* time (inclusive) and no later than it (future excluded).
C6_AsClaimed ==
    Loaded =>
        dash.stats.thisWeek =
            Cardinality({i \in 1..Len(dash.assessments) :
                            /\ dash.assessments[i].created_at >= evalAt[1].now - 168
                            /\ dash.assessments[i].created_at <= evalAt[1].now})

\* C6 as amended: weeklyCount counts exactly the records created strictly
\* after the cutoff of the load; a record stamped at the cutoff is not
\* counted and a record stamped after the evaluation time is.
C6_WeeklyCountsAfterCutoff ==
    Loaded =>
        dash.stats.thisWeek =
            Cardinality({i \in 1..Len(dash.assessments) :
                            dash.assessments[i].created_at > evalAt[1].oneWeekAgo})

\* One record exactly 168 hours old, at the cutoff, is left out and one
\* record from after the evaluation time is counted.
C6_Witness ==
    /\ Loaded
    /\ evalAt[1].oneWeekAgo = evalAt[1].now - 168
    /\ Len(dash.assessments) = 2
    /\ dash.assessments[1].created_at > evalAt[1].now
    /\ dash.assessments[2].created_at = evalAt[1].oneWeekAgo
    /\ dash.stats.thisWeek = 1

\* ---------------------------------------------------- exporter properties

\* The record set an export of a data type is made from: the one array the
\* type names, and all three together for 'all'.
ExportedSet(dataType) ==
    CASE dataType = "assessments" -> rep.assessments
      [] dataType = "strategies" -> rep.strategies
      [] dataType = "factors" -> rep.riskFactors
      [] OTHER -> rep.assessments \o rep.strategies \o rep.riskFactors

Downloaded(format, dataType) ==
    /\ download # << >>
    /\ download[1].name[6] = format
    /\ download[1].name[2] = dataType

\* C9: a file is produced only from a non-empty record set: whenever an export
\* has handed the browser a file, the record set the export was asked for
\* holds at least one record, and no file comes with the 'no data' notification.
C9_FileOnlyFromNonEmptySet ==
    /\ download # << >> => ExportedSet(download[1].name[2]) # << >>
    /\ toast = "No Data Available" => download = << >>

\* The array the parsed payload carries under a key, or << >>.
Reparsed(key) ==
    LET p == JSONparse(download[1].text)
    IN  IF p.ok /\ p.val.t = "object" THEN Get(p.val, key) ELSE << >>

\* C10: re-parsing the payload of a JSON export gives back each record set the
\* export carries: the same records in the same order, every field with the
\* value it had in the view.
C10_JsonRoundTrip ==
    /\ Downloaded("json", "all") =>
          /\ Reparsed("risk_assessments") = <<RowsJson(rep.assessments, "risk_assessments")>>
          /\ Reparsed("mitigation_strategies")
                = <<RowsJson(rep.strategies, "mitigation_strategies")>>
          /\ Reparsed("risk_factors") = <<RowsJson(rep.riskFactors, "risk_factors")>>
    /\ Downloaded("json", "strategies") =>
          Reparsed("mitigation_strategies")
             = <<RowsJson(rep.strategies, "mitigation_strategies")>>

\* A JSON export of two assessments whose descriptions hold quotation marks,
\* a backslash and a line break, with strategies and factors loaded.
C10_Witness ==
    /\ Downloaded("json", "all")
    /\ Len(rep.assessments) = 2
    /\ {rep.assessments[i].description : i \in 1..2} = ExportTexts
    /\ rep.strategies # << >>
    /\ rep.riskFactors # << >>

\* ------------------------------------------------------- load properties

\* The step in which a dashboard's load ends in its catch block.
DashboardLoadFailed ==
    /\ dash.mounted /\ dash.loading
    /\ dash'.mounted /\ ~dash'.loading
    /\ evalAt' = << >>

\* C11: a failed record fetch raises an error notification and leaves the
\* view's record arrays and statistics at their initial empty and zero values.
C11_FailedFetchNotifies ==
    [][ DashboardLoadFailed =>
          /\ toast' # None
          /\ dash'.assessments = << >>
          /\ dash'.strategies = << >>
          /\ dash'.riskFactors = << >>
          /\ dash'.stats = InitialStats
      ]_vars

\* C12: from its mounting until its fetch settles a view is loading and
\* renders the placeholder only: its record arrays and statistics hold their
\* initial values, no mitigation view is open, and nothing has been exported.
C12_LoadingShowsPlaceholderOnly ==
    /\ (dash.mounted /\ dash.loading) =>
          /\ DashboardView(dash) = "placeholder"
          /\ dash.assessments = << >>
          /\ dash.strategies = << >>
          /\ dash.riskFactors = << >>
          /\ dash.stats = InitialStats
          /\ ~dash.showMitigation
          /\ evalAt = << >>
    /\ (rep.mounted /\ rep.loading) =>
          /\ rep.assessments = << >>
          /\ rep.strategies = << >>
          /\ rep.riskFactors = << >>
          /\ download = << >>

\* The dashboard has just been entered while the table holds the sample row
\* and a row submitted through the form.
C12_Witness ==
    /\ activeTab = "dashboard"
    /\ dash.mounted /\ dash.loading
    /\ Len(risk_assessments) = 2
    /\ dash.assessments = << >>

\* ------------------------------------------------- application properties

\* The step in which the store answers an insert call without error.
InsertSucceeded ==
    \E i \in 1..Len(inserts) :
        /\ Len(inserts') = Len(inserts)
        /\ inserts[i].answer = "pending"
        /\ inserts'[i].answer = "ok"

\* C13: the stored risk-assessment records only grow: a step leaves the table
\* as it is or appends one row behind the rows it holds, which stay as they
\* are; the table grows exactly in the steps in which an insert succeeds,
\* and the row appended is the row submitted.
C13_AssessmentsOnlyGrow ==
    [][ /\ \/ risk_assessments' = risk_assessments
           \/ /\ Len(risk_assessments') = Len(risk_assessments) + 1
              /\ SubSeq(risk_assessments', 1, Len(risk_assessments)) = risk_assessments
        /\ (risk_assessments' # risk_assessments) <=> InsertSucceeded
        /\ InsertSucceeded =>
              \E i \in 1..Len(inserts), at \in ServerStamps :
                  /\ inserts[i].answer = "pending"
                  /\ inserts'[i].answer = "ok"
                  /\ risk_assessments'[Len(risk_assessments')] = StoredRow(inserts[i].row, at)
      ]_vars

\* A submitted row stands behind the untouched sample row, and the reports
\* view has since been entered, loaded and exported from.
C13_Witness ==
    /\ Len(risk_assessments) = 2
    /\ risk_assessments[1] = SampleAssessments[1]
    /\ activeTab = "reports"
    /\ download # << >>

\* A step of a form submission: the call is sent, answered by the store, or
\* its answer is handled.
SubmissionStep == inserts' # inserts /\ activeTab' = activeTab

ExportAgain(now) == ExportFile(download[1].name[6], download[1].name[2], rep, now)

\* C15 as claimed: the text of an export depends on the loaded record sets,
\* the format and the data type only: the same export at any other time
\* gives the same text.
C15_AsClaimed ==
    download # << >> =>
        \A now \in ExportNows : ExportAgain(now).text = download[1].text

\* An object without the member under a key.
Without(object, key) == JObject(SelectSeq(object.v, LAMBDA member : member.k # key))

\* A parsed payload with the export_date taken out of its metadata.
WithoutExportDate(text) ==
    LET p == JSONparse(text)
    IN  IF ~p.ok \/ p.val.t # "object" THEN <<"not an object">>
        ELSE << JObject([i \in 1..Len(p.val.v) |->
                    IF p.val.v[i].k = "metadata"
                    THEN Member("metadata", Without(p.val.v[i].e, "export_date"))
                    ELSE p.val.v[i]]) >>

\* C15 as amended: a CSV export and a JSON export of the strategies give the
\* same text at any time; JSON exports that carry the assessments give the
\* same text exactly when made at the same instant, and at different
\* instants texts that differ in metadata.export_date and nowhere else.
C15_SameTextButExportDate ==
    download # << >> =>
        /\ \E now \in ExportNows : ExportAgain(now).text = download[1].text
        /\ \A now \in ExportNows :
              IF download[1].name[6] = "json"
                    /\ download[1].name[2] \in {"all", "assessments"}
              THEN /\ WithoutExportDate(ExportAgain(now).text)
                        = WithoutExportDate(download[1].text)
                   /\ \A other \in ExportNows :
                         (ExportAgain(now).text = ExportAgain(other).text) <=> (now = other)
              ELSE ExportAgain(now).text = download[1].text

\* A full JSON export whose text an export an hour later would not repeat.
C15_Witness ==
    /\ Downloaded("json", "all")
    /\ rep.assessments # << >>
    /\ ExportAgain(RefTime).text = download[1].text
    /\ ExportAgain(RefTime + 1).text # download[1].text

\* ------------------------------------------------------ chart properties

\* The labels list carries in field, and where each is first met.
Labels(list, field) == {list[j][field] : j \in 1..Len(list)}

FirstAt(list, field, k) ==
    CHOOSE j \in 1..Len(list) :
        /\ list[j][field] = k
        /\ \A i \in 1..(j - 1) : list[i][field] # k

\* Label k goes before label other: it has more records, or as many and is
\* met first.
Before(list, field, k, other) ==
    \/ Carrying(list, field, k) > Carrying(list, field, other)
    \/ /\ Carrying(list, field, k) = Carrying(list, field, other)
       /\ FirstAt(list, field, k) < FirstAt(list, field, other)

ChartSizeOf(view) == IF view = "dashboard" THEN ToolChartSize ELSE HostedToolChartSize

\* C17: a tool chart holds the smaller of N and the number of distinct tools,
\* N being 10 in BlackThemeDashboard and 8 in the hosted Dashboard, in
\* non-increasing count order; each entry shows a tool with its count, no
\* tool twice, and every tool left out has a count no greater than any shown:
\* nothing is added for the tools left out.
C17_ToolChartIsTopN ==
    (Rendered("dashboard") \/ Rendered("hosted dashboard")) =>
        LET chart == aggOut.toolChartData
            tools == Labels(aggIn.assessments, "ai_tool")
            n == ChartSizeOf(aggOut.view)
            shown == {chart[i].name[1] : i \in 1..Len(chart)}
        IN  /\ Len(chart) = IF Cardinality(tools) < n THEN Cardinality(tools) ELSE n
            /\ \A i, j \in 1..Len(chart) : i < j => chart[i].value >= chart[j].value
            /\ \A i, j \in 1..Len(chart) : chart[i].name[1] = chart[j].name[1] => i = j
            /\ \A i \in 1..Len(chart) :
                  /\ chart[i].name[1] \in tools
                  /\ chart[i].value = Carrying(aggIn.assessments, "ai_tool", chart[i].name[1])
            /\ \A k \in tools \ shown :
                  \A i \in 1..Len(chart) :
                      Carrying(aggIn.assessments, "ai_tool", k) <= chart[i].value

\* Eleven tools, three of them with two records: the chart of
\* BlackThemeDashboard shows ten and leaves out a tool with one record.
C17_Witness ==
    /\ Rendered("dashboard")
    /\ Cardinality(Labels(aggIn.assessments, "ai_tool")) = 11
    /\ Len(aggIn.assessments) = 14
    /\ Len(aggOut.toolChartData) = 10
    /\ aggOut.toolChartData[3].value = 2
    /\ aggOut.toolChartData[10].value = 1

RECURSIVE CsvQuoted(_, _, _)
CsvQuoted(text, i, field) ==
    IF i > Len(text) THEN << >>
    ELSE IF text[i] = Quote
         THEN IF i + 1 <= Len(text) /\ text[i + 1] = Quote
              THEN CsvQuoted(text, i + 2, Append(field, Quote))
              ELSE <<[field |-> field, next |-> i + 1]>>
         ELSE CsvQuoted(text, i + 1, Append(field, text[i]))

RECURSIVE CsvPlain(_, _, _)
CsvPlain(text, i, field) ==
    IF i > Len(text) \/ text[i] \in {Comma, Newline}
    THEN <<[field |-> field, next |-> i]>>
    ELSE IF text[i] = Quote THEN << >>
         ELSE CsvPlain(text, i + 1, Append(field, text[i]))

CsvField(text, i) ==
    IF i <= Len(text) /\ text[i] = Quote
    THEN CsvQuoted(text, i + 1, << >>)
    ELSE CsvPlain(text, i, << >>)

RECURSIVE CsvRows(_, _, _, _)
CsvRows(text, i, row, rows) ==
    LET read == CsvField(text, i)
    IN  IF read = << >> THEN << >>
        ELSE LET next == read[1].next
                 fields == Append(row, read[1].field)
             IN  IF next > Len(text) THEN <<Append(rows, fields)>>
                 ELSE IF text[next] = Comma THEN CsvRows(text, next + 1, fields, rows)
                 ELSE IF text[next] = Newline
                      THEN CsvRows(text, next + 1, << >>, Append(rows, fields))
                 ELSE << >>

ReadCsv(text) == CsvRows(text, 1, << >>, << >>)

\* C19 as claimed: the CSV export of n >= 1 assessments reads as one header
\* row of the first record's keys followed by exactly n data rows, one per
\* record in input order, whose quoted fields are the record's values.
C19_CsvRowsAsClaimed ==
    (Downloaded("csv", "assessments") /\ rep.assessments # << >>) =>
        LET records == RowsJson(rep.assessments, "risk_assessments").v
            read == ReadCsv(download[1].text)
        IN  /\ read # << >>
            /\ Len(read[1]) = Len(records) + 1
            /\ read[1][1] = [j \in 1..Len(records[1].v) |-> <<records[1].v[j].k>>]
            /\ \A i \in 1..Len(records) :
                  read[1][i + 1]
                     = [j \in 1..Len(records[i].v) |-> TemplateText(records[i].v[j].e)]

\* C20 as claimed: every file an export produces is named
\* ai-risk-<dataType>-<YYYY-MM-DD>.<ext>, ext being the format asked for, and
\* has the type application/json for json and text/csv for csv.
C20_AsClaimed ==
    download # << >> =>
        \E button \in ExportButtons, now \in ExportNows :
            /\ download[1].name = <<"ai-risk-", button.dataType, "-",
                                    ToString(now \div 24), ".", button.format>>
            /\ download[1].type = IF button.format = "json" THEN "application/json"
                                  ELSE "text/csv"

\* C20 as amended: every file an export produces is named
\* ai-risk-comprehensive-<dataType>-<YYYY-MM-DD>.<ext>, the date being the day
\* of the export and ext the format asked for, and has the type
\* application/json for json and text/csv for csv.
C20_FileNameAndType ==
    download # << >> =>
        \E button \in ExportButtons, now \in ExportNows :
            /\ download[1].name = <<"ai-risk-comprehensive-", button.dataType, "-",
                                    ToString(now \div 24), ".", button.format>>
            /\ download[1].type = IF button.format = "json" THEN "application/json"
                                  ELSE "text/csv"

\* A CSV export made a day after the reference instant.
C20_Witness ==
    /\ Downloaded("csv", "assessments")
    /\ download[1].name[4] = ToString((RefTime + 24) \div 24)
    /\ download[1].type = "text/csv"

\* ---------------------------------------------- records lacking properties

\* The count an object holds under a key, 0 when it has no such key.
CountUnder(obj, k) == IF KeyIndex(obj, k) = 0 THEN 0 ELSE obj[KeyIndex(obj, k)][2]

\* The records of a list that lack a property, that carry it with a label.
LackingField(list, field) == Cardinality({j \in 1..Len(list) : field \notin DOMAIN list[j]})

CarryingLabel(list, field, k) ==
    Cardinality({j \in 1..Len(list) : field \in DOMAIN list[j] /\ list[j][field] = k})

DashboardRendered == aggOut.view \in {"dashboard", "hosted dashboard"}

\* C21 as claimed: a record lacking severity, ai_tool or risk_type is counted
\* under the empty-string label of that grouping, and the counts of each
\* grouping cover every record.
C21_AsClaimed ==
    DashboardRendered =>
        \A field \in GroupedFields :
            LET obj == aggOut[CASE field = "severity" -> "severityData"
                               [] field = "ai_tool" -> "toolData"
                               [] field = "risk_type" -> "riskTypeData"]
            IN  /\ CountUnder(obj, "") = LackingField(aggIn.assessments, field)
                                           + CarryingLabel(aggIn.assessments, field, "")
                /\ SumSeq(Counts(obj)) = Len(aggIn.assessments)

\* C21 as amended: a render of records lacking severity, ai_tool or risk_type
\* yields its groupings all the same; such a record is counted under the label
\* "undefined" of that grouping, the empty-string label counts only records
\* carrying the empty string, and the counts of each grouping cover every
\* record.
C21_MissingCountedUnderUndefined ==
    DashboardRendered =>
        \A field \in GroupedFields :
            LET obj == aggOut[CASE field = "severity" -> "severityData"
                               [] field = "ai_tool" -> "toolData"
                               [] field = "risk_type" -> "riskTypeData"]
            IN  /\ CountUnder(obj, "undefined") = LackingField(aggIn.assessments, field)
                /\ CountUnder(obj, "") = CarryingLabel(aggIn.assessments, field, "")
                /\ SumSeq(Counts(obj)) = Len(aggIn.assessments)

\* Two records, one lacking its severity and its tool, one carrying the empty
\* severity: the first is counted under "undefined", the second under "".
C21_Witness ==
    /\ aggOut.view = "dashboard"
    /\ Len(aggIn.assessments) = 2
    /\ DOMAIN aggIn.assessments[1] \cap GroupedFields = {"risk_type"}
    /\ GroupedFields \subseteq DOMAIN aggIn.assessments[2]
    /\ aggOut.severityData = << <<"undefined", 1>>, <<"", 1>> >>
    /\ aggOut.toolChartData[1].name = <<"undefined">>

\* ------------------------------------------------------ mitigation lookup

\* A selection that is made: neither absent nor the empty label.
Chosen(selection) == selection \notin {None, ""}

\* How often a row occurs in a list.
Occurrences(list, row) == Cardinality({i \in 1..Len(list) : list[i] = row})

\* C22: a mitigation lookup that succeeds returns exactly the strategies whose
\* risk_type equals the selected risk type, when one is selected, and whose
\* severity equals the selected severity, when one is selected, and exactly
\* the risk factors whose risk_type equals the selected risk type, when one
\* is selected; an absent or empty selection filters nothing.
C22_LookupReturnsExactlyTheMatches ==
    [][fetchMitigationData =>
          LET selected == dash.selectedRisk
              found == dash'.mitigation
              StrategyMatches(row) ==
                  /\ Chosen(selected.riskType) => row.risk_type = selected.riskType
                  /\ Chosen(selected.severity) => row.severity = selected.severity
              FactorMatches(row) ==
                  Chosen(selected.riskType) => row.risk_type = selected.riskType
          IN  /\ \A i \in 1..Len(mitigation_strategies) :
                    Occurrences(found.strategies, mitigation_strategies[i])
                      = IF StrategyMatches(mitigation_strategies[i])
                        THEN Occurrences(mitigation_strategies, mitigation_strategies[i])
                        ELSE 0
              /\ \A i \in 1..Len(found.strategies) :
                    Occurrences(mitigation_strategies, found.strategies[i]) > 0
              /\ \A i \in 1..Len(risk_factors) :
                    Occurrences(found.riskFactors, risk_factors[i])
                      = IF FactorMatches(risk_factors[i])
                        THEN Occurrences(risk_factors, risk_factors[i])
                        ELSE 0
              /\ \A i \in 1..Len(found.riskFactors) :
                    Occurrences(risk_factors, found.riskFactors[i]) > 0]_vars

\* The lookup behind the Critical card, which selects the severity Critical
\* and the empty risk type: the one Critical strategy, and every factor.
C22_Witness ==
    /\ dash.mounted
    /\ DashboardView(dash) = "mitigation"
    /\ dash.selectedRisk = [riskType |-> "", severity |-> "Critical"]
    /\ dash.mitigation.strategies
          = << Strategy("Misinformation", "Critical", <<"Source Verification">>, 9) >>
    /\ Len(dash.mitigation.riskFactors) = 2

\* ------------------------------------------------------ in-progress flags

\* The insert calls of the mounted form instance that have not settled.
InFlight == {i \in 1..Len(inserts) : inserts[i].mounted}

\* C28: at most one insert of a form instance is in flight at any time: the
\* flag isSubmitting is set exactly while one is, the submit control is
\* disabled while it is set, and an insert is sent only by a form whose
\* earlier insert has settled.
C28_OneInsertInFlight ==
    /\ Cardinality(InFlight) <= 1
    /\ isSubmitting <=> InFlight # {}
    /\ isSubmitting => SubmitDisabled

\* A filled form with its insert awaiting the store's answer.
C28_Witness ==
    /\ activeTab = "form"
    /\ isSubmitting
    /\ Cardinality(InFlight) = 1
    /\ inserts[CHOOSE i \in InFlight : TRUE].answer = "pending"
    /\ formData.aiTool # "" /\ formData.riskType # "" /\ formData.severity # ""

\* A step in which an insert of the mounted form instance settles, a report
\* generation settles, an export ends.
SubmissionSettles ==
    \E i \in 1..Len(inserts) :
        /\ inserts[i].mounted
        /\ inserts[i].answer # "pending"
        /\ inserts' = RemoveAt(inserts, i)

ReportSettles ==
    toast' \in {"Report Generated Successfully", "Report Generation Failed"}

ExportEnds == toast' \in {"Export Completed", "Export Failed"}

\* C23: when a submission, a report generation or an export settles, by
\* success or by failure, its in-progress flag is false again; after a failed
\* submission the form holds what was typed and its submit control is
\* enabled, so the same action can be started again.
C23_FlagsLoweredOnSettling ==
    [][/\ SubmissionSettles =>
             /\ ~isSubmitting'
             /\ toast' = "Submission Error" => (formData' = formData /\ ~SubmitDisabled')
       /\ ReportSettles => ~rep'.isExporting
       /\ ExportEnds => ~rep'.isExporting]_vars

\* A submission has failed: the form keeps what was typed and the submit
\* control is enabled again.
C23_Witness ==
    /\ activeTab = "form"
    /\ toast = "Submission Error"
    /\ inserts = << >>
    /\ ~isSubmitting
    /\ ~SubmitDisabled

\* ------------------------------------------------------- view instances

\* What a view instance holds of its load.
HeldArrays(view) == <<view.assessments, view.strategies, view.riskFactors>>

\* C24: a dashboard or reports view entered by a tab switch is a fresh
\* instance, with empty arrays, zero statistics, no selected risk, the
\* mitigation panel closed and its one load pending; the view of every other
\* tab is unmounted; and an instance whose load has settled keeps the arrays
\* and statistics of that load until it is left.
C24_ViewsAreFreshInstances ==
    [][/\ activeTab' # activeTab =>
             /\ dash' = IF activeTab' = "dashboard" THEN InitialDash ELSE Unmounted
             /\ rep' = IF activeTab' = "reports" THEN InitialReports ELSE Unmounted
       /\ (activeTab' = activeTab /\ dash.mounted /\ ~dash.loading) =>
             /\ dash'.mounted
             /\ HeldArrays(dash') = HeldArrays(dash)
             /\ dash'.stats = dash.stats
       /\ (activeTab' = activeTab /\ rep.mounted /\ ~rep.loading) =>
             /\ rep'.mounted
             /\ HeldArrays(rep') = HeldArrays(rep)
       /\ (activeTab' = activeTab /\ dash.mounted /\ dash.loading /\ ~dash'.loading) =>
             HeldArrays(dash') \in { HeldArrays(InitialDash),
                                 << OrderDesc(risk_assessments, "created_at"),
                                    OrderDesc(mitigation_strategies, "effectiveness_score"),
                                    OrderDesc(risk_factors, "frequency_percentage") >> }]_vars

\* A dashboard just entered while the table holds the sample row and a
\* submitted one: the instance holds no row and no statistic yet.
C24_Witness ==
    /\ activeTab = "dashboard"
    /\ Len(risk_assessments) = 2
    /\ dash = InitialDash
    /\ dash.stats.total = 0
    /\ dash.selectedRisk = [riskType |-> None, severity |-> None]

\* C25: the mitigation view opened by the strategies button ('View All
\* Mitigation Strategies', 'Launch Mitigation Intelligence') looks up with no
\* risk type and no severity selected, whatever was clicked and backed out
\* of earlier in the dashboard instance.
C25_ButtonLooksUpUnfiltered ==
    [][(setShowMitigation /\ dash'.showMitigation) =>
          /\ ~Chosen(dash'.selectedRisk.riskType)
          /\ ~Chosen(dash'.selectedRisk.severity)]_vars

\* The three arrays as the store answers a view's queries.
Answered ==
    << OrderDesc(risk_assessments, "created_at"),
       OrderDesc(mitigation_strategies, "effectiveness_score"),
       OrderDesc(risk_factors, "frequency_percentage") >>

\* A step in which the load of a view settles.
DashboardLoadSettles == dash.mounted /\ dash.loading /\ dash'.mounted /\ ~dash'.loading

ReportsLoadSettles == rep.mounted /\ rep.loading /\ rep'.mounted /\ ~rep'.loading

LookupSettles ==
    /\ dash.mounted /\ dash.mitigation.mounted /\ dash.mitigation.loading
    /\ dash'.mounted /\ dash'.mitigation.mounted /\ ~dash'.mitigation.loading

\* C26: a load is all or nothing: when the load of a dashboard or reports
\* view settles, either none of its three arrays and no statistic has changed,
\* or all three arrays are the store's answers and the statistics are
\* computed from them; when a mitigation lookup settles, either neither of
\* its two arrays has changed or both are the answers of its queries.
C26_LoadIsAllOrNothing ==
    [][/\ DashboardLoadSettles =>
             \/ HeldArrays(dash') = HeldArrays(dash) /\ dash'.stats = dash.stats
             \/ /\ HeldArrays(dash') = Answered
                /\ \E now \in Nows, clockChange \in ClockChanges :
                      dash'.stats = StatsOf(Answered[1], Answered[2],
                                            OneWeekAgo(now, clockChange))
       /\ ReportsLoadSettles =>
             \/ HeldArrays(rep') = HeldArrays(rep)
             \/ HeldArrays(rep') = Answered
       /\ LookupSettles =>
             \/ /\ dash'.mitigation.strategies = dash.mitigation.strategies
                /\ dash'.mitigation.riskFactors = dash.mitigation.riskFactors
             \/ /\ dash'.mitigation.strategies
                      = strategiesQuery(dash.selectedRisk.riskType,
                                        dash.selectedRisk.severity)
                /\ dash'.mitigation.riskFactors
                      = factorsQuery(dash.selectedRisk.riskType)]_vars

\* A dashboard whose load failed while the table holds rows: no array and
\* no statistic was set.
C26_Witness ==
    /\ activeTab = "dashboard"
    /\ dash.mounted /\ ~dash.loading
    /\ risk_assessments # << >>
    /\ HeldArrays(dash) = << << >>, << >>, << >> >>
    /\ dash.stats = InitialStats

\* C27: in every state of a dashboard instance the statistics agree with the
\* array it holds: total is the number of held assessments, critical and
\* high the numbers of held assessments of severity Critical and High, and
\* critical + high is at most total.
C27_StatsAgreeWithHeldArray ==
    dash.mounted =>
        /\ dash.stats.total = Len(dash.assessments)
        /\ dash.stats.critical = Carrying(dash.assessments, "severity", "Critical")
        /\ dash.stats.high = Carrying(dash.assessments, "severity", "High")
        /\ dash.stats.critical + dash.stats.high <= dash.stats.total

\* A loaded dashboard holding a Critical, a High and a Low assessment.
C27_Witness ==
    /\ dash.mounted /\ ~dash.loading
    /\ Len(dash.assessments) = 3
    /\ dash.stats.total = 3
    /\ dash.stats.critical = 1
    /\ dash.stats.high = 1

C30_EmptyAveragesAreZero ==
    /\ (rep.mounted /\ rep.strategies = << >> /\ rep.assessments # << >>) =>
          ToString(getAnalyticsInsights(rep.assessments, rep.strategies,
                                        rep.riskFactors)[1].avgEffectiveness)
             = ToString(0)
    /\ (download # << >> /\ download[1].name[6] = "json"
           /\ download[1].name[2] \in {"all", "strategies"} /\ rep.strategies = << >>) =>
          /\ Reparsed("strategy_summary") # << >>
          /\ Get(Reparsed("strategy_summary")[1], "average_effectiveness")
                = <<JNumber(0, 1)>>
    /\ (Downloaded("json", "all") /\ rep.riskFactors = << >>) =>
          /\ Reparsed("factor_analysis") # << >>
          /\ Get(Reparsed("factor_analysis")[1], "average_frequency")
                = <<JNumber(0, 1)>>

=============================================================================
